---- MODULE Spec2Model ----
(***************************************************************************)
(* Module-level definition and export resolution of pyre2                  *)
(* (pyre2/bin/export/definitions.rs): the DefinitionsBuilder walk over the  *)
(* statements of a module, and the post-construction operations            *)
(* inject_builtins and ensure_dunder_all of Definitions.                   *)
(*                                                                         *)
(* Names and module names are strings, modelled as tuples of characters so  *)
(* that starts_with('_') and first_component are computed, not tabulated.   *)
(* A TextRange is modelled as <<line, off>>: the number of the top-level    *)
(* statement being scanned and the offset of the node inside it.            *)
(* An Option<T> is a sequence of length 0 (None) or 1 (Some).               *)
(***************************************************************************)
EXTENDS Integers, Sequences, FiniteSets, TLC

VARIABLES definitions, import_all, dunder_all, attempts, pc, n, ensures, last, pre,
          qn

vars == <<definitions, import_all, dunder_all, attempts, pc, n, ensures, last, pre,
          qn>>

RECURSIVE stmt(_, _, _)
RECURSIVE stmts(_, _, _)
RECURSIVE if_loop(_, _, _)
RECURSIVE visit_stmt(_, _, _)
RECURSIVE expr_lvalue_names(_)
RECURSIVE FlatMapLvalues(_)
RECURSIVE first_component(_)
RECURSIVE filter_map_as_item(_, _)
RECURSIVE add_names(_, _, _, _)
RECURSIVE IndexOfKey(_, _, _)

\* ------------------------------------------------------------------ bounds

MaxStmts == 2

MaxEnsure == 1

\* the largest text offset of an identifier of a qualified name
MaxOffset == 2

\* ------------------------------------------------------------------- names

NameA == <<"a">>

NameB == <<"b">>

NameP == <<"_", "p">>

NameX == <<"x">>

NameAB == <<"a", "b">>

ALL == <<"_", "_", "a", "l", "l", "_", "_">>

ModFoo == <<"f", "o", "o">>

ModMU == <<"m", ".", "u">>

builtins == <<"b", "u", "i", "l", "t", "i", "n", "s">>

None == <<>>

Some(v) == <<v>>

starts_with(name, c) == Len(name) > 0 /\ name[1] = c

\* ModuleName::first_component: the text before the first dot
first_component(m) ==
    IF m = <<>> \/ Head(m) = "." THEN <<>>
    ELSE <<Head(m)>> \o first_component(Tail(m))

\* ModuleName::from_name: a module name with the text of the name
from_name(id) == id

\* TextRange of the node at offset off of top-level statement line
Range(line, off) == <<line, off>>

\* TextRange::default()
DefaultRange == <<0, 0>>

\* ---------------------------------------------------------- DefinitionStyle

\* the variants with ImportAsEq declared before ImportAs
DefinitionStyleAsEqFirst ==
    <<"Local", "ImportAsEq", "ImportAs", "Import", "ImportModule">>

\* the variants in declaration order, which #[derive(Ord)] compares by
DefinitionStyle == <<"Local", "ImportAs", "ImportAsEq", "Import", "ImportModule">>

StyleOrd(s) == CHOOSE i \in 1..Len(DefinitionStyle) : DefinitionStyle[i] = s

\* cmp::min(a, b): a unless b is strictly smaller
cmp_min(a, b) == IF StyleOrd(b) < StyleOrd(a) THEN b ELSE a

\* ----------------------------------------------------------------- SmallMap
\* An insertion-ordered map is a sequence of entries with distinct keys.

IndexOfKey(m, k, i) ==
    IF i > Len(m) THEN 0
    ELSE IF m[i].key = k THEN i
    ELSE IndexOfKey(m, k, i + 1)

contains_key(m, k) == IndexOfKey(m, k, 1) # 0

MapGet(m, k) == m[IndexOfKey(m, k, 1)]

Keys(m) == {m[i].key : i \in 1..Len(m)}

\* an insert that leaves the value of a present key as it is
import_all_insert_keeps_first(m, module, range) ==
    IF contains_key(m, module) THEN m
    ELSE Append(m, [key |-> module, range |-> range])

\* SmallMap::insert: a present key keeps its position and takes the new value
import_all_insert(m, module, range) ==
    IF contains_key(m, module)
    THEN [m EXCEPT ![IndexOfKey(m, module, 1)].range = range]
    ELSE Append(m, [key |-> module, range |-> range])

\* an or_default that resets the value of a present key
import_all_or_default_overwrites(m, module) ==
    IF contains_key(m, module)
    THEN [m EXCEPT ![IndexOfKey(m, module, 1)].range = DefaultRange]
    ELSE Append(m, [key |-> module, range |-> DefaultRange])

\* SmallMap::entry(k).or_default(): a present key is left as it is
import_all_or_default(m, module) ==
    IF contains_key(m, module) THEN m
    ELSE Append(m, [key |-> module, range |-> DefaultRange])

\* ------------------------------------------------------------- expressions

NameExpr(id, off) == [kind |-> "Name", id |-> id, off |-> off]

Str(value, off) == [kind |-> "StringLiteral", value |-> value, off |-> off]

ListExpr(elts, off) == [kind |-> "List", elts |-> elts, off |-> off]

TupleExpr(elts, off) == [kind |-> "Tuple", elts |-> elts, off |-> off]

Attribute(value, attr, off) ==
    [kind |-> "Attribute", value |-> value, attr |-> attr, off |-> off]

Subscript(off) == [kind |-> "Subscript", off |-> off]

Number(off) == [kind |-> "NumberLiteral", off |-> off]

Call(func, args, keywords, off) ==
    [kind |-> "Call", func |-> func, args |-> args, keywords |-> keywords,
     off |-> off]

Identifier(id, off) == [id |-> id, off |-> off]

\* ---------------------------------------------------------- DunderAllEntry

EntryName(range, name) == [kind |-> "Name", range |-> range, name |-> name]

EntryModule(range, module) == [kind |-> "Module", range |-> range, name |-> module]

EntryRemove(range, name) == [kind |-> "Remove", range |-> range, name |-> name]

is_all(x) == x.kind = "Name" /\ x.id = ALL

\* an item parser that takes a name for a literal
as_item_any_name(x, line) ==
    IF x.kind = "StringLiteral"
    THEN Some(EntryName(Range(line, x.off), x.value))
    ELSE IF x.kind = "Name"
    THEN Some(EntryName(Range(line, x.off), x.id))
    ELSE None

\* Option<DunderAllEntry>
as_item(x, line) ==
    IF x.kind = "StringLiteral"
    THEN Some(EntryName(Range(line, x.off), x.value))
    ELSE None

\* elts.iter().filter_map(DunderAllEntry::as_item).collect()
filter_map_as_item(elts, line) ==
    IF elts = <<>> THEN <<>>
    ELSE as_item(Head(elts), line) \o filter_map_as_item(Tail(elts), line)

as_list(x, line) ==
    CASE x.kind = "List" -> filter_map_as_item(x.elts, line)
      [] x.kind = "Tuple" -> filter_map_as_item(x.elts, line)
      [] x.kind = "Attribute" /\ x.value.kind = "Name" /\ x.attr = ALL ->
            <<EntryModule(Range(line, x.value.off), from_name(x.value.id))>>
      [] OTHER -> <<>>

\* ------------------------------------------------------- DefinitionsBuilder
\* d is the Definitions under construction (builder.inner):
\* [definitions, import_all, dunder_all], with a history field, attempts,
\* that records every call of add_name as [name, style, range].

\* add_name that moves the recorded range to the latest binding
add_name_moves_range(d, x, range, style) ==
    IF contains_key(d.definitions, x)
    THEN LET i == IndexOfKey(d.definitions, x, 1)
             e == d.definitions[i]
         IN [d EXCEPT !.definitions[i] =
                [e EXCEPT !.range = range,
                          !.style = cmp_min(e.style, style),
                          !.count = e.count + 1],
                      !.attempts = Append(@, [name |-> x, style |-> style, range |-> range])]
    ELSE [d EXCEPT !.definitions =
            Append(d.definitions,
                   [key |-> x, range |-> range, style |-> style, count |-> 1]),
                   !.attempts = Append(@, [name |-> x, style |-> style, range |-> range])]

\* add_name that records the most recent style instead of the minimum
add_name_latest(d, x, range, style) ==
    IF contains_key(d.definitions, x)
    THEN LET i == IndexOfKey(d.definitions, x, 1)
             e == d.definitions[i]
         IN [d EXCEPT !.definitions[i] =
                [e EXCEPT !.style = style, !.count = e.count + 1],
                      !.attempts = Append(@, [name |-> x, style |-> style, range |-> range])]
    ELSE [d EXCEPT !.definitions =
            Append(d.definitions,
                   [key |-> x, range |-> range, style |-> style, count |-> 1]),
                   !.attempts = Append(@, [name |-> x, style |-> style, range |-> range])]

add_name(d, x, range, style) ==
    IF contains_key(d.definitions, x)
    THEN LET i == IndexOfKey(d.definitions, x, 1)
             e == d.definitions[i]
         IN [d EXCEPT !.definitions[i] =
                [e EXCEPT !.style = cmp_min(e.style, style),
                          !.count = e.count + 1],
                      !.attempts = Append(@, [name |-> x, style |-> style, range |-> range])]
    ELSE [d EXCEPT !.definitions =
            Append(d.definitions,
                   [key |-> x, range |-> range, style |-> style, count |-> 1]),
                   !.attempts = Append(@, [name |-> x, style |-> style, range |-> range])]

add_identifier(d, x, line, style) == add_name(d, x.id, Range(line, x.off), style)

\* Ast::expr_lvalue: the names in binding position, in source order;
\* attribute and subscript targets bind nothing
FlatMapLvalues(elts) ==
    IF elts = <<>> THEN <<>>
    ELSE expr_lvalue_names(Head(elts)) \o FlatMapLvalues(Tail(elts))

expr_lvalue_names(x) ==
    CASE x.kind = "Name" -> <<x>>
      [] x.kind \in {"List", "Tuple"} -> FlatMapLvalues(x.elts)
      [] OTHER -> <<>>

\* add_name with style Local for each of a sequence of names
add_names(d, xs, line, style) ==
    IF xs = <<>> THEN d
    ELSE add_names(add_name(d, Head(xs).id, Range(line, Head(xs).off), style),
                   Tail(xs), line, style)

expr_lvalue(d, x, line) == add_names(d, expr_lvalue_names(x), line, "Local")

\* Ast::pattern_lvalue: the identifiers a match pattern binds
pattern(d, x, line) == add_names(d, x, line, "Local")

\* Config::evaluate_bool_opt: Some(true), Some(false) or None (unknown) for a
\* test; an else clause has no test and counts as Some(true).  A test is
\* modelled by the value the evaluator gives it.
evaluate_bool_opt(test) ==
    CASE test = None -> Some(TRUE)
      [] test = Some("True") -> Some(TRUE)
      [] test = Some("False") -> Some(FALSE)
      [] OTHER -> None

\* ModuleName::new_maybe_relative(is_init, level, module) for the module of a
\* from-import: Some(absolute name), or None when the dots escape the root.
\* The statement carries the answer of the resolver for it.
new_maybe_relative(x) == x.resolved

\* Stmt::Import: for a in &x.names
RECURSIVE import_names(_, _, _)
import_names(d, names, line) ==
    IF names = <<>> THEN d
    ELSE LET a == Head(names)
             module == from_name(a.name.id)
             d1 == IF a.asname = None
                   THEN add_name(d, first_component(module),
                                 Range(line, a.name.off), "ImportModule")
                   ELSE add_identifier(d, a.asname[1], line,
                            IF a.asname[1].id = a.name.id
                            THEN "ImportAsEq" ELSE "ImportAs")
         IN import_names(d1, Tail(names), line)

\* a style rule that does not look at what the alias is equal to
import_from_style_no_eq(a) ==
    IF a.asname # None THEN "ImportAs" ELSE "Import"

\* the style of a named from-import alias
import_from_style(a) ==
    IF a.asname # None /\ a.asname[1].id = a.name.id THEN "ImportAsEq"
    ELSE IF a.asname # None THEN "ImportAs"
    ELSE "Import"

\* a wildcard import that also binds the name `*` like a named import
import_from_star_binds(d, x, a, line) ==
    LET d1 == add_identifier(d, a.name, line, "Import")
    IN IF new_maybe_relative(x) # None
       THEN [d1 EXCEPT !.import_all =
                import_all_insert(d1.import_all, new_maybe_relative(x)[1],
                                  Range(line, a.name.off))]
       ELSE d1

\* `from M import *`
import_from_star(d, x, a, line) ==
    IF new_maybe_relative(x) # None
    THEN [d EXCEPT !.import_all =
            import_all_insert(d.import_all, new_maybe_relative(x)[1],
                              Range(line, a.name.off))]
    ELSE d

\* `from M import __all__ as __all__` resetting the log whether or not the
\* module resolves
import_from_named_unchecked(d, x, a, line) ==
    LET style == import_from_style(a)
        d1 == add_identifier(d, IF a.asname # None THEN a.asname[1] ELSE a.name,
                             line, style)
        module == IF new_maybe_relative(x) # None
                  THEN new_maybe_relative(x)[1] ELSE <<>>
    IN IF style = "ImportAsEq" /\ a.name.id = ALL
       THEN [d1 EXCEPT !.dunder_all = <<EntryModule(Range(line, x.off), module)>>]
       ELSE d1

\* `from M import __all__ as __all__` adding the module to the log it finds
import_from_named_appends(d, x, a, line) ==
    LET style == import_from_style(a)
        d1 == add_identifier(d, IF a.asname # None THEN a.asname[1] ELSE a.name,
                             line, style)
    IN IF style = "ImportAsEq" /\ a.name.id = ALL /\ new_maybe_relative(x) # None
       THEN [d1 EXCEPT !.dunder_all =
                Append(@, EntryModule(Range(line, x.off), new_maybe_relative(x)[1]))]
       ELSE d1

\* `from M import a [as b]`
import_from_named(d, x, a, line) ==
    LET style == import_from_style(a)
        d1 == add_identifier(d, IF a.asname # None THEN a.asname[1] ELSE a.name,
                             line, style)
    IN IF style = "ImportAsEq" /\ a.name.id = ALL /\ new_maybe_relative(x) # None
       THEN [d1 EXCEPT !.dunder_all =
                <<EntryModule(Range(line, x.off), new_maybe_relative(x)[1])>>]
       ELSE d1

\* Stmt::ImportFrom: for a in &x.names
RECURSIVE import_from_names(_, _, _, _)
import_from_names(d, x, names, line) ==
    IF names = <<>> THEN d
    ELSE LET a == Head(names)
             d1 == IF a.name.id = <<"*">>
                   THEN import_from_star(d, x, a, line)
                   ELSE import_from_named(d, x, a, line)
         IN import_from_names(d1, x, Tail(names), line)

\* an assignment to `__all__` that appends to the log
assign_target_appends(d, t, value, line) ==
    LET d1 == expr_lvalue(d, t, line)
    IN IF is_all(t)
       THEN [d1 EXCEPT !.dunder_all = d1.dunder_all \o as_list(value, line)]
       ELSE d1

\* Stmt::Assign, one target
assign_target(d, t, value, line) ==
    LET d1 == expr_lvalue(d, t, line)
    IN IF is_all(t)
       THEN [d1 EXCEPT !.dunder_all = as_list(value, line)]
       ELSE d1

\* Stmt::Assign: for t in &x.targets
RECURSIVE assign_targets(_, _, _, _)
assign_targets(d, targets, value, line) ==
    IF targets = <<>> THEN d
    ELSE assign_targets(assign_target(d, Head(targets), value, line),
                        Tail(targets), value, line)

\* an augmented assignment to `__all__` appending whatever the operator
aug_assign_any_op(d, x, line) ==
    IF is_all(x.target)
    THEN [d EXCEPT !.dunder_all = d.dunder_all \o as_list(x.value, line)]
    ELSE expr_lvalue(d, x.target, line)

\* Stmt::AugAssign
aug_assign(d, x, line) ==
    IF is_all(x.target) /\ x.op = "Add"
    THEN [d EXCEPT !.dunder_all = d.dunder_all \o as_list(x.value, line)]
    ELSE expr_lvalue(d, x.target, line)

\* a guard that looks at the first positional argument only
is_all_call_first_arg(x) ==
    /\ x.value.kind = "Call"
    /\ x.value.func.kind = "Attribute"
    /\ is_all(x.value.func.value)
    /\ Len(x.value.args) >= 1

\* the guard of the Stmt::Expr arm: a call of a method of `__all__` with one
\* argument, which is positional (arguments.len() counts keywords too)
is_all_call(x) ==
    /\ x.value.kind = "Call"
    /\ x.value.func.kind = "Attribute"
    /\ is_all(x.value.func.value)
    /\ Len(x.value.args) + Len(x.value.keywords) = 1
    /\ x.value.keywords = <<>>

\* remove that also deletes the earlier entries of the name from the log
dunder_all_remove_deletes(d, arg, line) ==
    LET item == as_item(arg, line)
    IN IF item # None
       THEN [d EXCEPT !.dunder_all =
                Append(SelectSeq(d.dunder_all, LAMBDA e : e.name # item[1].name),
                       EntryRemove(item[1].range, item[1].name))]
       ELSE d

\* "remove" => push a Remove for a literal argument
dunder_all_remove(d, arg, line) ==
    LET item == as_item(arg, line)
    IN IF item # None
       THEN [d EXCEPT !.dunder_all =
                Append(d.dunder_all, EntryRemove(item[1].range, item[1].name))]
       ELSE d

\* the body of the Stmt::Expr arm: match attr.as_str()
all_call(d, x, line) ==
    LET attr == x.value.func.attr
        arg == x.value.args[1]
    IN CASE attr = <<"e", "x", "t", "e", "n", "d">> ->
                [d EXCEPT !.dunder_all = d.dunder_all \o as_list(arg, line)]
         [] attr = <<"a", "p", "p", "e", "n", "d">> ->
                [d EXCEPT !.dunder_all = d.dunder_all \o as_item(arg, line)]
         [] attr = <<"r", "e", "m", "o", "v", "e">> ->
                dunder_all_remove(d, arg, line)
         [] OTHER -> d

\* Stmt::With: the optional_vars of the items
RECURSIVE with_items(_, _, _)
with_items(d, items, line) ==
    IF items = <<>> THEN d
    ELSE with_items(IF Head(items) # None
                    THEN expr_lvalue(d, Head(items)[1], line) ELSE d,
                    Tail(items), line)

\* Stmt::Match: the patterns of the cases
RECURSIVE match_cases(_, _, _)
match_cases(d, cases, line) ==
    IF cases = <<>> THEN d
    ELSE match_cases(pattern(d, Head(cases).pattern, line), Tail(cases), line)

\* Stmt::Try: the names of the handlers
RECURSIVE try_handlers(_, _, _)
try_handlers(d, handlers, line) ==
    IF handlers = <<>> THEN d
    ELSE try_handlers(IF Head(handlers).name # None
                      THEN add_identifier(d, Head(handlers).name[1], line, "Local")
                      ELSE d,
                      Tail(handlers), line)

\* a branch visited only when its test is definitely true
branch_visited_known(b) == b = Some(TRUE)

\* if b != Some(false) { self.stmts(body) }
branch_visited(b) == b # Some(FALSE)

\* a loop over the branches without the break
branch_breaks_never(b) == FALSE

\* if b == Some(true) { break }
branch_breaks(b) == b = Some(TRUE)

\* Stmt::If: for (test, body) in Ast::if_branches(x)
if_loop(d, branches, line) ==
    IF branches = <<>> THEN d
    ELSE LET b == evaluate_bool_opt(Head(branches).test)
             d1 == IF branch_visited(b)
                   THEN stmts(d, Head(branches).body, line) ELSE d
         IN IF branch_breaks(b) THEN d1
            ELSE if_loop(d1, Tail(branches), line)

\* function definitions falling through to the visitor
arm_returns_no_function(x) == x.kind \in {"ClassDef", "If"}

\* class and function definitions falling through to the visitor
arm_returns_if_only(x) == x.kind = "If"

\* the arms of the match that return instead of falling through to
\* Visitors::visit_stmt
arm_returns(x) == x.kind \in {"ClassDef", "FunctionDef", "If"}

\* the match of DefinitionsBuilder::stmt
stmt_match(d, x, line) ==
    CASE x.kind = "Import" -> import_names(d, x.names, line)
      [] x.kind = "ImportFrom" -> import_from_names(d, x, x.names, line)
      [] x.kind = "ClassDef" -> add_identifier(d, x.name, line, "Local")
      [] x.kind = "Assign" -> assign_targets(d, x.targets, x.value, line)
      [] x.kind = "AugAssign" -> aug_assign(d, x, line)
      [] x.kind = "Expr" /\ is_all_call(x) -> all_call(d, x, line)
      [] x.kind = "AnnAssign" -> expr_lvalue(d, x.target, line)
      [] x.kind = "TypeAlias" -> expr_lvalue(d, x.name, line)
      [] x.kind = "FunctionDef" -> add_identifier(d, x.name, line, "Local")
      [] x.kind = "For" -> expr_lvalue(d, x.target, line)
      [] x.kind = "With" -> with_items(d, x.items, line)
      [] x.kind = "Match" -> match_cases(d, x.cases, line)
      [] x.kind = "Try" -> try_handlers(d, x.handlers, line)
      [] x.kind = "If" -> if_loop(d, x.branches, line)
      [] OTHER -> d

\* the statements directly inside a statement, in source order
RECURSIVE BodiesOf(_)
BodiesOf(xs) ==
    IF xs = <<>> THEN <<>> ELSE Head(xs).body \o BodiesOf(Tail(xs))

child_stmts(x) ==
    CASE x.kind \in {"For", "While", "With", "ClassDef", "FunctionDef"} -> x.body
      [] x.kind = "Try" -> x.body \o BodiesOf(x.handlers)
      [] x.kind = "Match" -> BodiesOf(x.cases)
      [] x.kind = "If" -> BodiesOf(x.branches)
      [] OTHER -> <<>>

\* Visitors::visit_stmt(x, |x| self.stmt(x))
visit_stmt(d, x, line) == stmts(d, child_stmts(x), line)

stmt(d, x, line) ==
    LET d1 == stmt_match(d, x, line)
    IN IF arm_returns(x) THEN d1 ELSE visit_stmt(d1, x, line)

stmts(d, xs, line) ==
    IF xs = <<>> THEN d
    ELSE stmts(stmt(d, Head(xs), line), Tail(xs), line)

\* Definitions::default()
DefaultDefinitions ==
    [definitions |-> <<>>, import_all |-> <<>>, dunder_all |-> <<>>,
     attempts |-> <<>>]

\* Definitions::inject_builtins
inject_builtins(d) ==
    [d EXCEPT !.import_all = import_all_or_default(d.import_all, builtins)]

\* for (x, range) in self.import_all.iter() { push(Module(*range, *x)) }
RECURSIVE module_entries(_)
module_entries(m) ==
    IF m = <<>> THEN <<>>
    ELSE <<EntryModule(Head(m).range, Head(m).key)>> \o module_entries(Tail(m))

\* a filter that ignores the definition style
is_exported_any_style(name, defn, style) == ~starts_with(name, "_")

\* the filter of the loop over the definitions
is_exported(name, defn, style) ==
    /\ ~starts_with(name, "_")
    /\ (style = "Executable" \/ defn \in {"Local", "ImportAsEq"})

\* for (name, (range, defn, _)) in self.definitions.iter()
RECURSIVE name_entries(_, _)
name_entries(m, style) ==
    IF m = <<>> THEN <<>>
    ELSE (IF is_exported(Head(m).key, Head(m).style, style)
          THEN <<EntryName(Head(m).range, Head(m).key)>> ELSE <<>>)
         \o name_entries(Tail(m), style)

\* ensure_dunder_all without the early return
explicitly_defined_never(d) == FALSE

\* the early return of ensure_dunder_all
explicitly_defined(d) == contains_key(d.definitions, ALL)

\* Definitions::ensure_dunder_all
ensure_dunder_all(d, style) ==
    IF explicitly_defined(d) THEN d
    ELSE [d EXCEPT !.dunder_all =
            d.dunder_all
            \o (IF style = "Executable" THEN module_entries(d.import_all) ELSE <<>>)
            \o name_entries(d.definitions, style)]

\* ------------------------------------------------------------ the inputs
\* The statements the builder is run on.  Every node carries its offset in
\* the statement, so that the ranges of one statement are distinct.

Alias(name, asname) == [name |-> name, asname |-> asname]

Import(names) == [kind |-> "Import", names |-> names]

ImportFrom(names, resolved, off) ==
    [kind |-> "ImportFrom", names |-> names, resolved |-> resolved, off |-> off]

FromStar(resolved, off) ==
    ImportFrom(<<Alias(Identifier(<<"*">>, off + 1), None)>>, resolved, off)

FromNamed(name, asname, resolved, off) ==
    ImportFrom(<<Alias(Identifier(name, off + 1),
                       IF asname = None THEN None
                       ELSE Some(Identifier(asname[1], off + 2)))>>,
               resolved, off)

Assign(targets, value) == [kind |-> "Assign", targets |-> targets, value |-> value]

AssignName(id, off) == Assign(<<NameExpr(id, off)>>, Number(off + 1))

AssignAll(value, off) == Assign(<<NameExpr(ALL, off)>>, value)

AugAssign(target, op, value) ==
    [kind |-> "AugAssign", target |-> target, op |-> op, value |-> value]

ExprStmt(value) == [kind |-> "Expr", value |-> value]

\* `<obj>.<method>(args, keywords)` as a statement
MethodCall(obj, method, args, keywords, off) ==
    ExprStmt(Call(Attribute(NameExpr(obj, off), method, off), args, keywords, off))

Extend == <<"e", "x", "t", "e", "n", "d">>

AppendM == <<"a", "p", "p", "e", "n", "d">>

Remove == <<"r", "e", "m", "o", "v", "e">>

Pop == <<"p", "o", "p">>

Pass == [kind |-> "Pass"]

\* ["a", x, "b"] at offset off
ListAXB(off) ==
    ListExpr(<<Str(NameA, off + 1), NameExpr(NameX, off + 2), Str(NameB, off + 3)>>,
             off)

\* foo.__all__
FooAll(off) == Attribute(NameExpr(ModFoo, off), ALL, off)

ImportStmts ==
    { Import(<<Alias(Identifier(ModMU, 1), None)>>),
      Import(<<Alias(Identifier(NameA, 1), Some(Identifier(NameA, 2)))>>),
      Import(<<Alias(Identifier(ModMU, 1), Some(Identifier(NameA, 2)))>>) }

ImportFromStmts ==
    { FromStar(Some(ModFoo), 0), FromStar(Some(builtins), 0), FromStar(None, 0),
      FromNamed(NameA, None, Some(ModFoo), 0),
      FromNamed(NameA, None, None, 0),
      FromNamed(NameA, Some(NameA), Some(ModFoo), 0),
      FromNamed(NameB, Some(NameA), Some(ModFoo), 0),
      FromNamed(ALL, None, Some(ModFoo), 0),
      FromNamed(ALL, Some(ALL), Some(ModFoo), 0),
      FromNamed(ALL, Some(ALL), None, 0) }

DefStmts ==
    { [kind |-> "FunctionDef", name |-> Identifier(NameA, 1),
       body |-> <<AssignName(NameB, 10), AssignAll(ListAXB(21), 20),
                  FromStar(Some(ModFoo), 30)>>],
      [kind |-> "ClassDef", name |-> Identifier(NameB, 1),
       body |-> <<AssignName(NameA, 10),
                  MethodCall(ALL, AppendM, <<Str(NameA, 21)>>, <<>>, 20)>>] }

AssignStmts ==
    { AssignName(NameA, 1),
      AssignName(NameP, 1),
      Assign(<<TupleExpr(<<NameExpr(NameB, 1), NameExpr(NameA, 2)>>, 0)>>, Number(3)),
      Assign(<<Attribute(NameExpr(NameX, 1), NameA, 1)>>, Number(3)),
      AssignAll(ListAXB(2), 1),
      AssignAll(TupleExpr(<<Str(NameB, 3)>>, 2), 1),
      AssignAll(FooAll(2), 1),
      AssignAll(Call(NameExpr(NameX, 2), <<>>, <<>>, 2), 1) }

AugAssignStmts ==
    { AugAssign(NameExpr(ALL, 1), "Add", ListExpr(<<Str(NameB, 3)>>, 2)),
      AugAssign(NameExpr(ALL, 1), "Add", FooAll(2)),
      AugAssign(NameExpr(ALL, 1), "Add", NameExpr(NameX, 2)),
      AugAssign(NameExpr(ALL, 1), "Sub", ListExpr(<<Str(NameA, 3)>>, 2)),
      AugAssign(NameExpr(NameA, 1), "Add", Number(2)) }

CallStmts ==
    { MethodCall(ALL, Extend, <<ListAXB(2)>>, <<>>, 1),
      MethodCall(ALL, AppendM, <<Str(NameB, 2)>>, <<>>, 1),
      MethodCall(ALL, AppendM, <<NameExpr(NameX, 2)>>, <<>>, 1),
      MethodCall(ALL, Remove, <<Str(NameA, 2)>>, <<>>, 1),
      MethodCall(ALL, Remove, <<NameExpr(NameX, 2)>>, <<>>, 1),
      MethodCall(ALL, Pop, <<Str(NameA, 2)>>, <<>>, 1),
      MethodCall(ALL, Extend, <<>>, <<>>, 1),
      MethodCall(ALL, Extend, <<ListAXB(2), ListAXB(6)>>, <<>>, 1),
      MethodCall(ALL, Extend, <<>>, <<ListAXB(2)>>, 1),
      MethodCall(NameX, Extend, <<ListAXB(2)>>, <<>>, 1) }

CompoundStmts ==
    { [kind |-> "For",
       target |-> TupleExpr(<<NameExpr(NameA, 1), NameExpr(NameP, 2)>>, 0),
       body |-> <<MethodCall(ALL, AppendM, <<Str(NameA, 11)>>, <<>>, 10),
                  FromStar(Some(ModFoo), 20)>>],
      [kind |-> "While",
       body |-> <<AssignName(NameB, 10), AssignAll(ListAXB(21), 20)>>],
      [kind |-> "With", items |-> <<Some(NameExpr(NameA, 1)), None>>,
       body |-> <<AugAssign(NameExpr(ALL, 10), "Add",
                            ListExpr(<<Str(NameA, 12)>>, 11))>>],
      [kind |-> "Try", body |-> <<AssignName(NameA, 10)>>,
       handlers |-> <<[name |-> Some(Identifier(NameB, 20)),
                       body |-> <<FromStar(Some(ModFoo), 30)>>],
                      [name |-> None, body |-> <<Pass>>]>>],
      [kind |-> "Match",
       cases |-> <<[pattern |-> <<Identifier(NameA, 1)>>,
                    body |-> <<AssignName(NameB, 10)>>]>>],
      [kind |-> "AnnAssign", target |-> NameExpr(NameA, 1)],
      [kind |-> "TypeAlias", name |-> NameExpr(NameB, 1)] }

\* the k-th branch of an if chain binds a name, appends it to `__all__` and
\* wildcard-imports a module, all of its own
BranchName(k) == <<NameA, NameB, NameP>>[k]

BranchModule(k) == <<ModFoo, builtins, ModMU>>[k]

BranchBody(k) ==
    <<AssignName(BranchName(k), 10 * k),
      MethodCall(ALL, AppendM, <<Str(BranchName(k), 10 * k + 3)>>, <<>>, 10 * k + 2),
      FromStar(Some(BranchModule(k)), 10 * k + 5)>>

IfChain(tests) ==
    [kind |-> "If",
     branches |-> [k \in 1..Len(tests) |-> [test |-> tests[k], body |-> BranchBody(k)]]]

Tests == {Some("True"), Some("False"), Some("Unknown")}

\* the tests of the chains: every if/elif pair, and some chains of three
\* (None is an else clause)
TestSeqs ==
    {<<t1, t2>> : t1 \in Tests, t2 \in Tests}
    \cup { <<Some("Unknown"), Some("True"), Some("Unknown")>>,
           <<Some("Unknown"), Some("False"), None>>,
           <<Some("False"), Some("Unknown"), Some("True")>>,
           <<Some("Unknown"), Some("Unknown"), Some("Unknown")>> }

IfStmts == {IfChain(tests) : tests \in TestSeqs}

\* `from foo import a, b`
FromTwo ==
    ImportFrom(<<Alias(Identifier(NameA, 1), None), Alias(Identifier(NameB, 2), None)>>,
               Some(ModFoo), 0)

\* statements with the other shapes of expression and of target:
\* `__all__ = foo.a`, `__all__ = x.foo.__all__`, `__all__.extend(x)`,
\* `x.a += 1`
ShapeStmts ==
    { AssignAll(Attribute(NameExpr(ModFoo, 2), NameA, 2), 1),
      AssignAll(Attribute(Attribute(NameExpr(NameX, 2), ModFoo, 2), ALL, 2), 1),
      MethodCall(ALL, Extend, <<NameExpr(NameX, 2)>>, <<>>, 1),
      AugAssign(Attribute(NameExpr(NameX, 1), NameA, 1), "Add", Number(2)),
      FromTwo }

\* `__all__ = ("b",)`, `__all__ += ["a"]`, `__all__.remove("b")`,
\* `__all__.extend(["a", x, "b"])`, `__all__.append("b")`, `from m.u import *`
ExportBody ==
    <<AssignAll(TupleExpr(<<Str(NameB, 12)>>, 11), 10),
      AugAssign(NameExpr(ALL, 20), "Add", ListExpr(<<Str(NameA, 22)>>, 21)),
      MethodCall(ALL, Remove, <<Str(NameB, 31)>>, <<>>, 30),
      MethodCall(ALL, Extend, <<ListAXB(41)>>, <<>>, 40),
      MethodCall(ALL, AppendM, <<Str(NameB, 51)>>, <<>>, 50),
      FromStar(Some(ModMU), 60)>>

\* the same body in a function, a class, and a for, while, with and try
\* statement
NestedStmts ==
    { [kind |-> "FunctionDef", name |-> Identifier(NameX, 1), body |-> ExportBody],
      [kind |-> "ClassDef", name |-> Identifier(NameX, 1), body |-> ExportBody],
      [kind |-> "For", target |-> NameExpr(NameX, 1), body |-> ExportBody],
      [kind |-> "While", body |-> ExportBody],
      [kind |-> "With", items |-> <<Some(NameExpr(NameX, 1))>>, body |-> ExportBody],
      [kind |-> "Try", body |-> SubSeq(ExportBody, 1, 3),
       handlers |-> <<[name |-> Some(Identifier(NameX, 35)),
                       body |-> SubSeq(ExportBody, 4, 6)]>>] }

Stmts ==
    ImportStmts \cup ImportFromStmts \cup DefStmts \cup AssignStmts
    \cup AugAssignStmts \cup CallStmts \cup CompoundStmts \cup IfStmts
    \cup ShapeStmts \cup NestedStmts

ModuleStyles == {"Executable", "Interface"}

\* ------------------------------------------------------- the state machine
\* definitions, import_all, dunder_all: the fields of the Definitions;
\* attempts: the calls of add_name so far (history);
\* pc: "scan" while Definitions::new runs builder.stmts, "built" afterwards;
\* n: the statements scanned; ensures: the calls of ensure_dunder_all;
\* -------------------------------------------------------------------- QName
\* A qualified name: an identifier (text and range) and the module it is in.

\* TextRange of an identifier: start and end offsets
TextRange(start, end) == [start |-> start, end |-> end]

\* Identifier { id, range }
QIdentifier(id, start, end) == [id |-> id, range |-> TextRange(start, end)]

\* ModuleInfo, of which QName only reads name()
ModuleInfo(name) == [name |-> name]

\* QName::new
QName_new(name, module) == [name |-> name, module |-> module]

\* the characters of the names in use, in the order of their code points
Chars == <<".", "_", "a", "b", "f", "m", "o", "u">>

Code(ch) == CHOOSE i \in 1..Len(Chars) : Chars[i] = ch

\* Ord::cmp of two integers (TextSize, code points)
num_cmp(a, b) == IF a < b THEN "Less" ELSE IF a > b THEN "Greater" ELSE "Equal"

\* Ord::cmp of two strings: the first differing character decides, a proper
\* prefix is less
RECURSIVE str_cmp(_, _)
str_cmp(a, b) ==
    IF a = <<>> /\ b = <<>> THEN "Equal"
    ELSE IF a = <<>> THEN "Less"
    ELSE IF b = <<>> THEN "Greater"
    ELSE IF Head(a) # Head(b) THEN num_cmp(Code(Head(a)), Code(Head(b)))
    ELSE str_cmp(Tail(a), Tail(b))

\* Ord::cmp of ModuleName
ModuleName_cmp(a, b) == str_cmp(a, b)

\* a key that leaves out where the name is
QName_key_name_only(q) == <<q.name.id, 0, 0, ModFoo>>

\* QName::key
QName_key(q) == <<q.name.id, q.name.range.start, q.name.range.end, q.module.name>>

\* PartialEq of the key tuple: every component equal
tuple_eq(s, t) == s[1] = t[1] /\ s[2] = t[2] /\ s[3] = t[3] /\ s[4] = t[4]

\* Ord::cmp of the key tuple: the components in turn, the first that is not
\* Equal decides
tuple_cmp(s, t) ==
    LET c1 == str_cmp(s[1], t[1])
        c2 == num_cmp(s[2], t[2])
        c3 == num_cmp(s[3], t[3])
    IN IF c1 # "Equal" THEN c1
       ELSE IF c2 # "Equal" THEN c2
       ELSE IF c3 # "Equal" THEN c3
       ELSE ModuleName_cmp(s[4], t[4])

\* PartialEq::eq for QName
QName_eq(a, b) == tuple_eq(QName_key(a), QName_key(b))

\* Ord::cmp for QName
QName_cmp(a, b) == tuple_cmp(QName_key(a), QName_key(b))

QNameIds == {NameA, NameB, NameAB}

QNameRanges ==
    {TextRange(s, e) : <<s, e>> \in {p \in (0..MaxOffset) \X (0..MaxOffset) : p[1] <= p[2]}}

QNameModules == {ModFoo, ModMU}

QNames ==
    {QName_new(QIdentifier(id, r.start, r.end), ModuleInfo(mod)) :
        <<id, r, mod>> \in QNameIds \X QNameRanges \X QNameModules}

\* qn: a pair of qualified names and what comparing them returned
QPair(a, b, op, e, c) == [a |-> a, b |-> b, op |-> op, eq |-> e, cmp |-> c]

\* no pair is being compared
QIdle ==
    LET q == QName_new(QIdentifier(NameA, 0, 0), ModuleInfo(ModFoo))
    IN QPair(q, q, "idle", TRUE, "Equal")

\* last: the operation that led to this state; pre: the Definitions before it.

Inner ==
    [definitions |-> definitions, import_all |-> import_all,
     dunder_all |-> dunder_all, attempts |-> attempts]

Op(op, x, style) == [op |-> op, x |-> x, style |-> style]

SetInner(d) ==
    /\ definitions' = d.definitions
    /\ import_all' = d.import_all
    /\ dunder_all' = d.dunder_all
    /\ attempts' = d.attempts

Init ==
    /\ definitions = DefaultDefinitions.definitions
    /\ import_all = DefaultDefinitions.import_all
    /\ dunder_all = DefaultDefinitions.dunder_all
    /\ attempts = DefaultDefinitions.attempts
    /\ pc = "scan"
    /\ n = 0
    /\ ensures = 0
    /\ last = Op("init", Pass, "")
    /\ pre = DefaultDefinitions
    /\ qn = QIdle

\* one iteration of DefinitionsBuilder::stmts over the module body
Scan ==
    /\ pc = "scan"
    /\ n < MaxStmts
    /\ \E x \in Stmts :
         /\ SetInner(stmt(Inner, x, n + 1))
         /\ last' = Op("stmt", x, "")
    /\ n' = n + 1
    /\ pre' = Inner
    /\ UNCHANGED <<pc, ensures, qn>>

\* Definitions::new returns builder.inner
New ==
    /\ pc = "scan"
    /\ pc' = "built"
    /\ last' = Op("new", Pass, "")
    /\ pre' = Inner
    /\ UNCHANGED <<definitions, import_all, dunder_all, attempts, n, ensures, qn>>

InjectBuiltins ==
    /\ pc = "built"
    /\ SetInner(inject_builtins(Inner))
    /\ last' = Op("inject_builtins", Pass, "")
    /\ pre' = Inner
    /\ UNCHANGED <<pc, n, ensures, qn>>

EnsureDunderAll ==
    /\ pc = "built"
    /\ ensures < MaxEnsure
    /\ \E style \in ModuleStyles :
         /\ SetInner(ensure_dunder_all(Inner, style))
         /\ last' = Op("ensure_dunder_all", Pass, style)
    /\ ensures' = ensures + 1
    /\ pre' = Inner
    /\ UNCHANGED <<pc, n, qn>>

Next == Scan \/ New \/ InjectBuiltins \/ EnsureDunderAll

Spec == Init /\ [][Next]_vars

\* two qualified names are built, then compared with == and with cmp
InitQName ==
    /\ definitions = DefaultDefinitions.definitions
    /\ import_all = DefaultDefinitions.import_all
    /\ dunder_all = DefaultDefinitions.dunder_all
    /\ attempts = DefaultDefinitions.attempts
    /\ pc = "scan"
    /\ n = 0
    /\ ensures = 0
    /\ last = Op("init", Pass, "")
    /\ pre = DefaultDefinitions
    /\ \E a \in QNames, b \in QNames : qn = QPair(a, b, "new", FALSE, "Equal")

QNameEq ==
    /\ qn.op = "new"
    /\ qn' = [qn EXCEPT !.op = "eq", !.eq = QName_eq(qn.a, qn.b)]
    /\ UNCHANGED <<definitions, import_all, dunder_all, attempts, pc, n, ensures,
                   last, pre>>

QNameCmp ==
    /\ qn.op = "eq"
    /\ qn' = [qn EXCEPT !.op = "cmp", !.cmp = QName_cmp(qn.a, qn.b)]
    /\ UNCHANGED <<definitions, import_all, dunder_all, attempts, pc, n, ensures,
                   last, pre>>

NextQName == QNameEq \/ QNameCmp

SpecQName == InitQName /\ [][NextQName]_vars

TypeOK ==
    /\ pc \in {"scan", "built"}
    /\ n \in 0..MaxStmts
    /\ ensures \in 0..MaxEnsure

\* ---------------------------------------------------------------- claims

\* the styles a name was bound with, in the order of the binding attempts
RECURSIVE StylesOf(_, _)
StylesOf(as, name) ==
    IF as = <<>> THEN <<>>
    ELSE (IF Head(as).name = name THEN <<Head(as).style>> ELSE <<>>)
         \o StylesOf(Tail(as), name)

Range_(seq) == {seq[i] : i \in 1..Len(seq)}

\* the least of a non-empty set of styles in the order of the enum
LeastStyle(S) == CHOOSE s \in S : \A t \in S : StyleOrd(s) <= StyleOrd(t)

\* C1: the names of the definition table are the names some binding was
\* attempted for; the count of each is the number of binding attempts for it,
\* at least 1, and its style is the least style it was ever bound with; a name
\* bound with Import and then with Local has style Local and count 2.
C1_CountAndMinStyle ==
    /\ Keys(definitions) = {attempts[i].name : i \in 1..Len(attempts)}
    /\ \A i \in 1..Len(definitions) :
         LET e == definitions[i]
             styles == StylesOf(attempts, e.key)
         IN /\ e.count >= 1
            /\ e.count = Len(styles)
            /\ e.style = LeastStyle(Range_(styles))
            /\ styles = <<"Import", "Local">> => e.style = "Local" /\ e.count = 2

\* a name bound with Import and then with Local
C1_Witness ==
    \E i \in 1..Len(definitions) :
        /\ StylesOf(attempts, definitions[i].key) = <<"Import", "Local">>
        /\ definitions[i].style = "Local"
        /\ definitions[i].count = 2

\* C2 as stated: a name bound once with ImportAs and once with ImportAsEq, in
\* either order, ends with style ImportAsEq.
C2_Original ==
    \A i \in 1..Len(definitions) :
        StylesOf(attempts, definitions[i].key)
            \in {<<"ImportAs", "ImportAsEq">>, <<"ImportAsEq", "ImportAs">>}
        => definitions[i].style = "ImportAsEq"

\* the order Local < ImportAs < ImportAsEq < Import < ImportModule
C2_Rank(s) ==
    CASE s = "Local" -> 0
      [] s = "ImportAs" -> 1
      [] s = "ImportAsEq" -> 2
      [] s = "Import" -> 3
      [] s = "ImportModule" -> 4

\* C2: styles merge by the order Local < ImportAs < ImportAsEq < Import <
\* ImportModule and the lower rank wins: the style of a name is the one of
\* lowest rank among those it was bound with, and a name bound once with
\* ImportAs and once with ImportAsEq, in either order, ends with ImportAs.
C2_LowerRankWins ==
    \A i \in 1..Len(definitions) :
        LET e == definitions[i]
            styles == StylesOf(attempts, e.key)
        IN /\ e.style \in Range_(styles)
           /\ \A t \in Range_(styles) : C2_Rank(e.style) <= C2_Rank(t)
           /\ styles \in {<<"ImportAs", "ImportAsEq">>, <<"ImportAsEq", "ImportAs">>}
              => e.style = "ImportAs"

\* a name bound with ImportAsEq and then with ImportAs
C2_Witness ==
    \E i \in 1..Len(definitions) :
        /\ StylesOf(attempts, definitions[i].key) = <<"ImportAsEq", "ImportAs">>
        /\ definitions[i].style = "ImportAs"

\* the last operation scanned a statement of the module body
Scanned == last.op = "stmt"

\* `__all__ += e`
IsAllAugAdd(x) == x.kind = "AugAssign" /\ is_all(x.target) /\ x.op = "Add"

\* `__all__.<method>(arg)` with one positional argument
IsAllMethod(x, method) ==
    /\ x.kind = "Expr"
    /\ x.value.kind = "Call"
    /\ x.value.func.kind = "Attribute"
    /\ x.value.func.value.kind = "Name"
    /\ x.value.func.value.id = ALL
    /\ x.value.func.attr = method
    /\ Len(x.value.args) = 1
    /\ x.value.keywords = <<>>

IsPrefix(p, q) == Len(p) <= Len(q) /\ SubSeq(q, 1, Len(p)) = p

\* the operations an appending export statement parses to
C3_Parsed(x, line) ==
    CASE IsAllAugAdd(x) -> as_list(x.value, line)
      [] IsAllMethod(x, Extend) -> as_list(x.value.args[1], line)
      [] IsAllMethod(x, AppendM) -> as_item(x.value.args[1], line)
      [] IsAllMethod(x, Remove) /\ x.value.args[1].kind = "StringLiteral" ->
            <<EntryRemove(Range(line, x.value.args[1].off), x.value.args[1].value)>>
      [] OTHER -> <<>>

C3_IsAppending(x) ==
    \/ IsAllAugAdd(x)
    \/ IsAllMethod(x, Extend)
    \/ IsAllMethod(x, AppendM)
    \/ IsAllMethod(x, Remove)

\* C3: after `__all__ += e`, `__all__.extend(e)`, `__all__.append(e)` or
\* `__all__.remove('s')` the export log is the log before the statement
\* followed by the operations the statement parses to: the old log is a
\* prefix, nothing is deduplicated, and remove of a literal adds one Remove
\* and deletes nothing.
C3_AppendOnly ==
    (Scanned /\ C3_IsAppending(last.x)) =>
        /\ IsPrefix(pre.dunder_all, dunder_all)
        /\ dunder_all = pre.dunder_all \o C3_Parsed(last.x, n)
        /\ (IsAllMethod(last.x, Remove) /\ last.x.value.args[1].kind = "StringLiteral")
           => /\ Len(dunder_all) = Len(pre.dunder_all) + 1
              /\ dunder_all[Len(dunder_all)].kind = "Remove"

\* `__all__.remove('a')` when the log already holds Name(a)
C3_Witness ==
    /\ Scanned
    /\ IsAllMethod(last.x, Remove)
    /\ last.x.value.args[1].kind = "StringLiteral"
    /\ \E i \in 1..Len(pre.dunder_all) :
         /\ pre.dunder_all[i].kind = "Name"
         /\ pre.dunder_all[i].name = last.x.value.args[1].value
         /\ dunder_all[i] = pre.dunder_all[i]
    /\ dunder_all[Len(dunder_all)].kind = "Remove"

\* `__all__ = <expr>`
IsAllAssign(x) ==
    x.kind = "Assign" /\ Len(x.targets) = 1 /\ x.targets[1].kind = "Name"
    /\ x.targets[1].id = ALL

\* C4: after `__all__ = <expr>` the export log is exactly the list-parsing of
\* <expr>, whatever the log held before.
C4_AssignResets ==
    (Scanned /\ IsAllAssign(last.x)) => dunder_all = as_list(last.x.value, n)

\* `__all__ = <expr>` when the log held operations, with a non-empty result
C4_Witness ==
    /\ Scanned
    /\ IsAllAssign(last.x)
    /\ pre.dunder_all # <<>>
    /\ dunder_all # <<>>
    /\ Len(dunder_all) < Len(pre.dunder_all) + Len(as_list(last.x.value, n))

\* the ranges of the nodes of the k-th branch of the chain scanned last
BranchRanges(k) == {Range(n, off) : off \in (10 * k)..(10 * k + 9)}

\* the binding attempts made by the last operation
NewAttempts == SubSeq(attempts, Len(pre.attempts) + 1, Len(attempts))

\* what the k-th branch of the chain scanned last has left in the table
BranchBound(k) == \E i \in 1..Len(NewAttempts) : NewAttempts[i].range \in BranchRanges(k)

BranchImported(k) == \E i \in 1..Len(import_all) : import_all[i].range \in BranchRanges(k)

BranchExported(k) == \E i \in 1..Len(dunder_all) : dunder_all[i].range \in BranchRanges(k)

\* the guard of the k-th branch evaluates definitely false, definitely true,
\* unknown (an else clause has no guard)
GuardFalse(x, k) == x.branches[k].test = Some("False")

GuardTrue(x, k) == x.branches[k].test = Some("True")

GuardUnknown(x, k) == x.branches[k].test = Some("Unknown")

\* a branch before the k-th has a guard that is definitely true
AfterTrue(x, k) == \E j \in 1..(k - 1) : GuardTrue(x, j)

\* the chain without the branches of a set of positions
RECURSIVE DropBranches(_, _, _)
DropBranches(branches, k, drop) ==
    IF k > Len(branches) THEN <<>>
    ELSE (IF k \in drop THEN <<>> ELSE <<branches[k]>>)
         \o DropBranches(branches, k + 1, drop)

\* C5: in an if chain a branch whose guard is definitely false, and a branch
\* after one whose guard is definitely true, leaves nothing in the table: no
\* binding, no wildcard import, no export-log operation; the table is the one
\* the chain without these branches gives.
C5_FalseAndAfterTrueSkipped ==
    (Scanned /\ last.x.kind = "If") =>
        LET x == last.x
            skipped == {k \in 1..Len(x.branches) : GuardFalse(x, k) \/ AfterTrue(x, k)}
        IN /\ \A k \in skipped :
                ~BranchBound(k) /\ ~BranchImported(k) /\ ~BranchExported(k)
           /\ Inner = stmt(pre, [x EXCEPT !.branches = DropBranches(@, 1, skipped)], n)

\* a chain of three whose second guard is definitely true: the first branch,
\* of unknown guard, and the second are in the table, the third is not
C5_Witness ==
    /\ Scanned
    /\ last.x.kind = "If"
    /\ Len(last.x.branches) = 3
    /\ GuardTrue(last.x, 2)
    /\ BranchBound(1) /\ BranchBound(2) /\ ~BranchBound(3)
    /\ BranchExported(2) /\ ~BranchExported(3)
    /\ BranchImported(2) /\ ~BranchImported(3)

\* C6 as stated: when the guard of a branch is unknown, that branch and all
\* the branches after it contribute their bindings.
C6_Original ==
    (Scanned /\ last.x.kind = "If") =>
        \A k \in 1..Len(last.x.branches) :
            GuardUnknown(last.x, k) =>
                \A j \in k..Len(last.x.branches) : BranchBound(j)

\* C6: when a branch is examined (no branch before it is definitely true) and
\* its guard is unknown, that branch contributes its bindings and the
\* examination goes on: a later branch contributes exactly when its own guard
\* is not definitely false and no branch before it is definitely true.
C6_UnknownIsVisited ==
    (Scanned /\ last.x.kind = "If") =>
        \A k \in 1..Len(last.x.branches) :
            (GuardUnknown(last.x, k) /\ ~AfterTrue(last.x, k)) =>
                /\ BranchBound(k) /\ BranchImported(k) /\ BranchExported(k)
                /\ \A j \in (k + 1)..Len(last.x.branches) :
                     /\ BranchBound(j) <=> (~GuardFalse(last.x, j) /\ ~AfterTrue(last.x, j))
                     /\ BranchImported(j) <=> BranchBound(j)
                     /\ BranchExported(j) <=> BranchBound(j)

\* a chain of three unknown guards: the table has the union of the branches
C6_Witness ==
    /\ Scanned
    /\ last.x.kind = "If"
    /\ Len(last.x.branches) = 3
    /\ \A k \in 1..3 : GuardUnknown(last.x, k) /\ BranchBound(k)
    /\ \A k \in 1..3 : contains_key(definitions, BranchName(k))

\* the names bound by the assignments of a body
AssignedIn(body) ==
    {body[i].targets[1].id : i \in {j \in 1..Len(body) : body[j].kind = "Assign"}}

\* C7: a class or function definition at module scope makes one binding
\* attempt, of its own name with style Local, and nothing of its body reaches
\* the table: the names of the table are those before plus the definition's
\* name, and the wildcard imports and the export log are unchanged.
C7_DefBindsOnlyItsName ==
    (Scanned /\ last.x.kind \in {"ClassDef", "FunctionDef"}) =>
        /\ NewAttempts = <<[name |-> last.x.name.id, style |-> "Local",
                            range |-> Range(n, last.x.name.off)]>>
        /\ Keys(definitions) = Keys(pre.definitions) \cup {last.x.name.id}
        /\ MapGet(definitions, last.x.name.id).style = "Local"
        /\ import_all = pre.import_all
        /\ dunder_all = pre.dunder_all

\* a function whose body assigns a name that the table does not have, and
\* assigns `__all__` and imports a wildcard
C7_Witness ==
    /\ Scanned
    /\ last.x.kind = "FunctionDef"
    /\ \E name \in AssignedIn(last.x.body) : ~contains_key(definitions, name)
    /\ ALL \in AssignedIn(last.x.body)
    /\ contains_key(definitions, last.x.name.id)

\* a from-import whose relative module resolution fails
IsUnresolvedFrom(x) == x.kind = "ImportFrom" /\ x.resolved = None

IsWildcard(x) == x.names[1].name.id = <<"*">>

\* C8 as stated: a from-import whose module does not resolve adds nothing to
\* the definition table, the wildcard-import set or the export log, in its
\* wildcard form and in its named form.
C8_Original ==
    (Scanned /\ IsUnresolvedFrom(last.x)) =>
        /\ definitions = pre.definitions
        /\ import_all = pre.import_all
        /\ dunder_all = pre.dunder_all

\* C8: a from-import whose module does not resolve leaves the wildcard-import
\* set and the export log unchanged; its wildcard form leaves the definition
\* table unchanged too, while its named form still binds the name (or alias)
\* with the style of the alias rule.
C8_UnresolvedFromImport ==
    (Scanned /\ IsUnresolvedFrom(last.x)) =>
        /\ import_all = pre.import_all
        /\ dunder_all = pre.dunder_all
        /\ IsWildcard(last.x) => definitions = pre.definitions /\ NewAttempts = <<>>
        /\ ~IsWildcard(last.x) =>
             LET a == last.x.names[1]
                 bound == IF a.asname = None THEN a.name ELSE a.asname[1]
             IN /\ Len(NewAttempts) = 1
                /\ NewAttempts[1].name = bound.id
                /\ NewAttempts[1].style =
                     (IF a.asname = None THEN "Import"
                      ELSE IF a.asname[1].id = a.name.id THEN "ImportAsEq"
                      ELSE "ImportAs")
                /\ contains_key(definitions, bound.id)

\* `from ..M import __all__ as __all__`, M not resolving, when the log holds
\* operations: `__all__` is bound and the log is kept
C8_Witness ==
    /\ Scanned
    /\ IsUnresolvedFrom(last.x)
    /\ ~IsWildcard(last.x)
    /\ last.x.names[1].name.id = ALL
    /\ pre.dunder_all # <<>>
    /\ dunder_all = pre.dunder_all
    /\ ~contains_key(pre.definitions, ALL)
    /\ contains_key(definitions, ALL)

Ensured == last.op = "ensure_dunder_all"

\* C9 as stated: ensure_dunder_all called on a non-empty export log leaves
\* the log unchanged, for either module style.
C9_Original ==
    (Ensured /\ pre.dunder_all # <<>>) => dunder_all = pre.dunder_all

\* C9: ensure_dunder_all synthesizes only if `__all__` is not a name of the
\* definition table: when the table has an entry for `__all__`, the call
\* leaves the export log, empty or not, and the rest of the table unchanged,
\* for either module style.
C9_DefinedAllIsKept ==
    (Ensured /\ contains_key(pre.definitions, ALL)) =>
        /\ dunder_all = pre.dunder_all
        /\ definitions = pre.definitions
        /\ import_all = pre.import_all

\* a call with `__all__` bound, a wildcard import and a public local name
\* in the table, and a log that names neither
C9_Witness ==
    /\ Ensured
    /\ last.style = "Executable"
    /\ contains_key(pre.definitions, ALL)
    /\ pre.import_all # <<>>
    /\ \E i \in 1..Len(pre.definitions) :
         /\ pre.definitions[i].key[1] # "_"
         /\ pre.definitions[i].style = "Local"
         /\ \A j \in 1..Len(pre.dunder_all) :
              pre.dunder_all[j].name # pre.definitions[i].key
    /\ dunder_all = pre.dunder_all

\* the add-module operations of the wildcard imports, in their order
C10_Modules(m) == [i \in 1..Len(m) |-> EntryModule(m[i].range, m[i].key)]

\* the add-name operations of the entries of the definition table that pass
\* a test, in their order
C10_Names(m, Test(_)) ==
    LET kept == SelectSeq(m, Test)
    IN [i \in 1..Len(kept) |-> EntryName(kept[i].range, kept[i].key)]

C10_Public(e) == e.key[1] # "_"

C10_PublicOwned(e) == e.key[1] # "_" /\ e.style \in {"Local", "ImportAsEq"}

\* C10: when ensure_dunder_all synthesizes (no entry for `__all__`), the log
\* gets, after what it held: for an Executable module one add-module
\* operation per wildcard import and then one add-name operation per name
\* not starting with an underscore, of any style; for the other style no
\* add-module operation and add-name operations only for the names not
\* starting with an underscore whose style is Local or ImportAsEq.
C10_Synthesis ==
    (Ensured /\ ~contains_key(pre.definitions, ALL)) =>
        /\ last.style = "Executable" =>
             dunder_all = pre.dunder_all \o C10_Modules(pre.import_all)
                          \o C10_Names(pre.definitions, C10_Public)
        /\ last.style # "Executable" =>
             /\ dunder_all = pre.dunder_all
                             \o C10_Names(pre.definitions, C10_PublicOwned)
             /\ \A i \in (Len(pre.dunder_all) + 1)..Len(dunder_all) :
                  /\ dunder_all[i].kind = "Name"
                  /\ MapGet(pre.definitions, dunder_all[i].name).style
                        \notin {"Import", "ImportAs", "ImportModule"}
        /\ definitions = pre.definitions
        /\ import_all = pre.import_all

\* a synthesis for a library module with a wildcard import, a public name
\* of style Import, which is left out, and a public Local name, which is added
C10_Witness ==
    /\ Ensured
    /\ last.style = "Interface"
    /\ ~contains_key(pre.definitions, ALL)
    /\ pre.import_all # <<>>
    /\ \E i \in 1..Len(pre.definitions) :
         /\ pre.definitions[i].key[1] # "_"
         /\ pre.definitions[i].style = "Import"
         /\ \A j \in 1..Len(dunder_all) : dunder_all[j].name # pre.definitions[i].key
    /\ \E i \in 1..Len(pre.definitions) :
         /\ pre.definitions[i].style = "Local"
         /\ dunder_all[Len(dunder_all)] =
              EntryName(pre.definitions[i].range, pre.definitions[i].key)
    /\ \A j \in 1..Len(dunder_all) : dunder_all[j].kind # "Module"

\* a wildcard from-import whose module resolves
IsResolvedStar(x) == x.kind = "ImportFrom" /\ x.resolved # None /\ IsWildcard(x)

\* the number of entries of a map for a key
EntriesFor(m, k) == Cardinality({i \in 1..Len(m) : m[i].key = k})

\* C11 as stated: a `from M import *` for a module the wildcard-import set
\* already has leaves the recorded location as it was (the first one wins).
C11_Original ==
    (Scanned /\ IsResolvedStar(last.x)
        /\ contains_key(pre.import_all, last.x.resolved[1])) =>
        MapGet(import_all, last.x.resolved[1]).range
            = MapGet(pre.import_all, last.x.resolved[1]).range

\* C11: the wildcard-import set has one entry per module, whatever the number
\* of `from M import *` statements: a further one for M adds no entry and
\* leaves every entry at its position, and the location recorded for M is
\* that of the statement scanned last (the last location wins).
C11_OneEntryLastLocation ==
    /\ \A i \in 1..Len(import_all) : EntriesFor(import_all, import_all[i].key) = 1
    /\ (Scanned /\ IsResolvedStar(last.x)) =>
         LET module == last.x.resolved[1]
         IN /\ EntriesFor(import_all, module) = 1
            /\ MapGet(import_all, module).range
                 = Range(n, last.x.names[1].name.off)
            /\ contains_key(pre.import_all, module) =>
                 /\ Len(import_all) = Len(pre.import_all)
                 /\ \A i \in 1..Len(import_all) :
                      /\ import_all[i].key = pre.import_all[i].key
                      /\ import_all[i].key # module =>
                           import_all[i].range = pre.import_all[i].range

\* a second `from M import *`: one entry, with the location of the second
C11_Witness ==
    /\ Scanned
    /\ IsResolvedStar(last.x)
    /\ contains_key(pre.import_all, last.x.resolved[1])
    /\ MapGet(pre.import_all, last.x.resolved[1]).range[1] < n
    /\ MapGet(import_all, last.x.resolved[1]).range[1] = n
    /\ Len(import_all) = 1

\* a from-import of one name, not a wildcard
IsNamedFrom(x) == x.kind = "ImportFrom" /\ Len(x.names) = 1 /\ ~IsWildcard(x)

\* `from M import __all__ as __all__` with M resolving
IsAllReexport(x) ==
    /\ IsNamedFrom(x)
    /\ x.resolved # None
    /\ x.names[1].name.id = ALL
    /\ x.names[1].asname # None
    /\ x.names[1].asname[1].id = ALL

\* C12: `from M import __all__ as __all__` with M resolving binds `__all__`
\* with style ImportAsEq and makes the export log the single operation
\* Module(M), whatever the log held; every other from-import of a name
\* leaves the export log unchanged.
C12_AllReexportResets ==
    (Scanned /\ IsNamedFrom(last.x)) =>
        /\ IsAllReexport(last.x) =>
             /\ Len(NewAttempts) = 1
             /\ NewAttempts[1].name = ALL
             /\ NewAttempts[1].style = "ImportAsEq"
             /\ contains_key(definitions, ALL)
             /\ dunder_all = <<EntryModule(Range(n, last.x.off), last.x.resolved[1])>>
        /\ ~IsAllReexport(last.x) => dunder_all = pre.dunder_all

\* the re-export scanned when the log held other operations
C12_Witness ==
    /\ Scanned
    /\ IsAllReexport(last.x)
    /\ pre.dunder_all # <<>>
    /\ \A i \in 1..Len(pre.dunder_all) : pre.dunder_all[i].kind # "Module"
    /\ Len(dunder_all) = 1
    /\ dunder_all[1].kind = "Module"

\* the add-name operations of the literal-text elements of a list, in order
C13_Literals(elts, line) ==
    LET lits == SelectSeq(elts, LAMBDA e : e.kind = "StringLiteral")
    IN [i \in 1..Len(lits) |-> EntryName(Range(line, lits[i].off), lits[i].value)]

\* the operations the claim gives an expression
C13_Parse(v, line) ==
    IF v.kind \in {"List", "Tuple"} THEN C13_Literals(v.elts, line)
    ELSE IF v.kind = "Attribute" /\ v.attr = ALL /\ v.value.kind = "Name"
    THEN <<EntryModule(Range(line, v.value.off), v.value.id)>>
    ELSE <<>>

\* an expression that is no list, no tuple and no `<bare_name>.__all__`
C13_OtherShape(v) ==
    /\ v.kind \notin {"List", "Tuple"}
    /\ ~(v.kind = "Attribute" /\ v.attr = ALL /\ v.value.kind = "Name")

\* C13: list-parsing gives one add-name operation per literal-text element of
\* a list or tuple, in element order, and drops the other elements;
\* `<bare_name>.__all__` gives Module(bare_name); any other expression gives
\* nothing, so that `__all__ = <other>` leaves the log empty and
\* `__all__ += <other>` and `__all__.extend(<other>)` leave it unchanged.
C13_ListParsing ==
    /\ (Scanned /\ IsAllAssign(last.x)) =>
         /\ dunder_all = C13_Parse(last.x.value, n)
         /\ C13_OtherShape(last.x.value) => dunder_all = <<>>
    /\ (Scanned /\ IsAllAugAdd(last.x)) =>
         /\ dunder_all = pre.dunder_all \o C13_Parse(last.x.value, n)
         /\ C13_OtherShape(last.x.value) => dunder_all = pre.dunder_all
    /\ (Scanned /\ IsAllMethod(last.x, Extend)) =>
         /\ dunder_all = pre.dunder_all \o C13_Parse(last.x.value.args[1], n)
         /\ C13_OtherShape(last.x.value.args[1]) => dunder_all = pre.dunder_all

\* `__all__ = ["a", x, "b"]`: the log is Name(a), Name(b)
C13_Witness ==
    /\ Scanned
    /\ IsAllAssign(last.x)
    /\ last.x.value.kind = "List"
    /\ Len(last.x.value.elts) = 3
    /\ last.x.value.elts[2].kind = "Name"
    /\ Len(dunder_all) = 2
    /\ dunder_all[1].name = NameA /\ dunder_all[2].name = NameB

\* `__all__.<method>(...)`, any method and any arguments
IsAllCall(x) ==
    /\ x.kind = "Expr"
    /\ x.value.kind = "Call"
    /\ x.value.func.kind = "Attribute"
    /\ x.value.func.value.kind = "Name"
    /\ x.value.func.value.id = ALL

\* the calls the claim lists: another method, zero, several or keyword
\* arguments, remove or append of something that is not a literal
C14_Ignored(x) ==
    /\ IsAllCall(x)
    /\ \/ x.value.func.attr \notin {Extend, AppendM, Remove}
       \/ Len(x.value.args) # 1
       \/ x.value.keywords # <<>>
       \/ /\ x.value.func.attr \in {AppendM, Remove}
          /\ Len(x.value.args) = 1
          /\ x.value.args[1].kind # "StringLiteral"

\* C14: a method call on `__all__` with a method other than extend, append,
\* remove, or with zero, several or keyword arguments, or remove or append
\* of a non-literal, changes nothing: definition table, wildcard-import set
\* and export log are as before, and no binding is attempted.
C14_UnsupportedCallIgnored ==
    (Scanned /\ C14_Ignored(last.x)) =>
        /\ definitions = pre.definitions
        /\ import_all = pre.import_all
        /\ dunder_all = pre.dunder_all
        /\ attempts = pre.attempts

\* `__all__.extend(l, l)` on a table with a log, a binding and a wildcard
C14_Witness ==
    /\ Scanned
    /\ C14_Ignored(last.x)
    /\ last.x.value.func.attr = Extend
    /\ Len(last.x.value.args) = 2
    /\ pre.dunder_all # <<>>
    /\ pre.definitions # <<>>
    /\ pre.import_all # <<>>
    /\ dunder_all = pre.dunder_all

\* C15 as stated: `__all__ += e` only appends to the log and binds nothing;
\* an augmented assignment with any other target or operator adds one Local
\* binding of its target and leaves the log unchanged.
C15_Original ==
    (Scanned /\ last.x.kind = "AugAssign") =>
        IF IsAllAugAdd(last.x)
        THEN /\ IsPrefix(pre.dunder_all, dunder_all)
             /\ definitions = pre.definitions
             /\ NewAttempts = <<>>
        ELSE /\ Len(NewAttempts) = 1
             /\ NewAttempts[1].style = "Local"
             /\ dunder_all = pre.dunder_all

\* C15: `__all__ += e` only appends to the log and binds nothing (the entry
\* and the count of `__all__` are as before); an augmented assignment with
\* another operator, or whose target is another name, adds one Local binding
\* of that name and leaves the log unchanged; one whose target is an
\* attribute or a subscript binds nothing and leaves the log unchanged.
C15_AugAssign ==
    (Scanned /\ last.x.kind = "AugAssign") =>
        IF IsAllAugAdd(last.x)
        THEN /\ dunder_all = pre.dunder_all \o as_list(last.x.value, n)
             /\ definitions = pre.definitions
             /\ NewAttempts = <<>>
        ELSE /\ dunder_all = pre.dunder_all
             /\ last.x.target.kind = "Name" =>
                  /\ Len(NewAttempts) = 1
                  /\ NewAttempts[1].name = last.x.target.id
                  /\ NewAttempts[1].style = "Local"
                  /\ contains_key(definitions, last.x.target.id)
             /\ last.x.target.kind \in {"Attribute", "Subscript"} =>
                  NewAttempts = <<>> /\ definitions = pre.definitions

\* `__all__ -= e` on a non-empty log: `__all__` is bound and the log is kept
C15_Witness ==
    /\ Scanned
    /\ last.x.kind = "AugAssign"
    /\ is_all(last.x.target)
    /\ last.x.op # "Add"
    /\ pre.dunder_all # <<>>
    /\ dunder_all = pre.dunder_all
    /\ Len(NewAttempts) = 1
    /\ NewAttempts[1].name = ALL

\* the text of a dotted name before its first dot
C16_TopLevel(m) ==
    LET dots == {i \in 1..Len(m) : m[i] = "."}
    IN IF dots = {} THEN m
       ELSE SubSeq(m, 1, (CHOOSE i \in dots : \A j \in dots : i <= j) - 1)

\* the style the alias rule gives: ImportAsEq for an alias equal to the
\* imported name, ImportAs for another alias
C16_AliasStyle(a) ==
    IF a.asname[1].id = a.name.id THEN "ImportAsEq" ELSE "ImportAs"

\* C16: `import a.b.c` binds the top-level component a with ImportModule;
\* `import m as x` binds x with ImportAsEq if x is the imported name and with
\* ImportAs otherwise; `from M import a` binds a with Import, `from M import
\* a as a` binds a with ImportAsEq, `from M import a as x` binds x with
\* ImportAs.  Each statement makes this one binding attempt.
C16_ImportStyles ==
    /\ (Scanned /\ last.x.kind = "Import" /\ Len(last.x.names) = 1) =>
         LET a == last.x.names[1]
         IN /\ Len(NewAttempts) = 1
            /\ a.asname = None =>
                 /\ NewAttempts[1].name = C16_TopLevel(a.name.id)
                 /\ NewAttempts[1].style = "ImportModule"
            /\ a.asname # None =>
                 /\ NewAttempts[1].name = a.asname[1].id
                 /\ NewAttempts[1].style = C16_AliasStyle(a)
            /\ contains_key(definitions, NewAttempts[1].name)
    /\ (Scanned /\ IsNamedFrom(last.x)) =>
         LET a == last.x.names[1]
         IN /\ Len(NewAttempts) = 1
            /\ a.asname = None =>
                 /\ NewAttempts[1].name = a.name.id
                 /\ NewAttempts[1].style = "Import"
            /\ a.asname # None =>
                 /\ NewAttempts[1].name = a.asname[1].id
                 /\ NewAttempts[1].style = C16_AliasStyle(a)
            /\ contains_key(definitions, NewAttempts[1].name)

\* `import m.u` as the first binding of m: the table has m with ImportModule
C16_Witness ==
    /\ Scanned
    /\ last.x.kind = "Import"
    /\ last.x.names[1].asname = None
    /\ last.x.names[1].name.id = ModMU
    /\ ~contains_key(pre.definitions, <<"m">>)
    /\ contains_key(definitions, <<"m">>)
    /\ MapGet(definitions, <<"m">>).style = "ImportModule"
    /\ ~contains_key(definitions, ModMU)

\* C17: `from M import *` with M resolving records M in the wildcard-import
\* set and nothing else: no binding is attempted, the definition table (its
\* entries and their counts) and the export log are as before.
C17_WildcardOnlyRecordsModule ==
    (Scanned /\ IsResolvedStar(last.x)) =>
        /\ contains_key(import_all, last.x.resolved[1])
        /\ Keys(import_all) = Keys(pre.import_all) \cup {last.x.resolved[1]}
        /\ definitions = pre.definitions
        /\ NewAttempts = <<>>
        /\ dunder_all = pre.dunder_all

\* the first wildcard import of a module, on a table with bindings and a log
C17_Witness ==
    /\ Scanned
    /\ IsResolvedStar(last.x)
    /\ ~contains_key(pre.import_all, last.x.resolved[1])
    /\ contains_key(import_all, last.x.resolved[1])
    /\ pre.definitions # <<>>
    /\ pre.dunder_all # <<>>
    /\ definitions = pre.definitions

Injected == last.op = "inject_builtins"

\* C18: inject_builtins leaves the wildcard-import set with an entry for
\* builtins: an entry there already, of an explicit `from builtins import *`,
\* keeps its location, otherwise one with the default location is added; the
\* definition table and the export log are unchanged, and a second call
\* changes nothing.
C18_InjectBuiltins ==
    Injected =>
        /\ contains_key(import_all, builtins)
        /\ EntriesFor(import_all, builtins) = 1
        /\ contains_key(pre.import_all, builtins) => import_all = pre.import_all
        /\ ~contains_key(pre.import_all, builtins) =>
             import_all = Append(pre.import_all,
                                 [key |-> builtins, range |-> DefaultRange])
        /\ definitions = pre.definitions
        /\ dunder_all = pre.dunder_all
        /\ inject_builtins(Inner) = Inner
        /\ inject_builtins(inject_builtins(pre)) = inject_builtins(pre)

\* a call on a table with an explicit `from builtins import *`
C18_Witness ==
    /\ Injected
    /\ contains_key(pre.import_all, builtins)
    /\ MapGet(pre.import_all, builtins).range # DefaultRange
    /\ MapGet(import_all, builtins).range = MapGet(pre.import_all, builtins).range

\* the four components a qualified name is compared by, read off its fields
C19_Tuple(q) == <<q.name.id, q.name.range.start, q.name.range.end, q.module.name>>

\* the order of one component: text and module name as strings, offsets as
\* numbers
C19_Component(i, x, y) == IF i \in {1, 4} THEN str_cmp(x, y) ELSE num_cmp(x, y)

\* the lexicographic order: the first component that differs decides
C19_Lex(s, t) ==
    IF s = t THEN "Equal"
    ELSE LET i == CHOOSE k \in 1..4 : s[k] # t[k] /\ \A j \in 1..(k - 1) : s[j] = t[j]
         IN C19_Component(i, s[i], t[i])

Compared == qn.op = "cmp"

\* C19: == and cmp of qualified names are over (text, start, end, module) in
\* that order: cmp is the lexicographic order of the four components, == holds
\* exactly when the four components agree and exactly when cmp returns Equal,
\* so names of the same text with different ranges or modules are unequal.
C19_FullTupleOrder ==
    Compared =>
        /\ qn.cmp = C19_Lex(C19_Tuple(qn.a), C19_Tuple(qn.b))
        /\ qn.eq = (C19_Tuple(qn.a) = C19_Tuple(qn.b))
        /\ qn.eq = (qn.cmp = "Equal")
        /\ (/\ qn.a.name.id = qn.b.name.id
            /\ \/ qn.a.name.range # qn.b.name.range
               \/ qn.a.module.name # qn.b.module.name) =>
             (~qn.eq /\ qn.cmp # "Equal")

\* the same text at another range of the same module, the later start greater
\* although its end is smaller
C19_Witness ==
    /\ Compared
    /\ qn.a.name.id = qn.b.name.id
    /\ qn.a.module.name = qn.b.module.name
    /\ qn.a.name.range.start < qn.b.name.range.start
    /\ qn.a.name.range.end > qn.b.name.range.end
    /\ ~qn.eq
    /\ qn.cmp = "Less"

\* the names of a sequence of binding attempts, each once, in the order of
\* their first attempt
RECURSIVE C21_FirstNames(_)
C21_FirstNames(as) ==
    IF as = <<>> THEN <<>>
    ELSE LET init == C21_FirstNames(SubSeq(as, 1, Len(as) - 1))
             x == as[Len(as)].name
         IN IF x \in Range_(init) THEN init ELSE Append(init, x)

\* the range of the first attempt to bind a name
C21_FirstRange(as, name) ==
    as[CHOOSE i \in 1..Len(as) :
         as[i].name = name /\ \A j \in 1..(i - 1) : as[j].name # name].range

\* C21: an operation removes no entry of the definition table and leaves each
\* entry at its position with its range, its style not greater and its count
\* not smaller than before; the table lists the names in the order of their
\* first binding, each with the range of its first binding.
C21_FirstBindingKept ==
    /\ Len(definitions) >= Len(pre.definitions)
    /\ \A i \in 1..Len(pre.definitions) :
         /\ definitions[i].key = pre.definitions[i].key
         /\ definitions[i].range = pre.definitions[i].range
         /\ StyleOrd(definitions[i].style) <= StyleOrd(pre.definitions[i].style)
         /\ definitions[i].count >= pre.definitions[i].count
    /\ [i \in 1..Len(definitions) |-> definitions[i].key] = C21_FirstNames(attempts)
    /\ \A i \in 1..Len(definitions) :
         definitions[i].range = C21_FirstRange(attempts, definitions[i].key)

\* a name that is not the last of the table is bound again, at another range
\* and with a smaller style
C21_Witness ==
    /\ Scanned
    /\ Len(pre.definitions) >= 2
    /\ \E a \in Range_(NewAttempts) :
         /\ pre.definitions[1].key = a.name
         /\ pre.definitions[1].range # a.range
         /\ StyleOrd(a.style) < StyleOrd(pre.definitions[1].style)
    /\ definitions[1].range = pre.definitions[1].range
    /\ definitions[1].count > pre.definitions[1].count
    /\ StyleOrd(definitions[1].style) < StyleOrd(pre.definitions[1].style)

\* the statements nested in a for, while, with or try statement, in source
\* order
C22_Nested(x) ==
    IF x.kind = "Try" THEN x.body \o BodiesOf(x.handlers) ELSE x.body

\* the export log and the wildcard-import set after the statements xs are
\* scanned at module scope, one after the other, from the table d
C22_AtModuleScope(d, xs) ==
    LET r == stmts(d, xs, n)
    IN [dunder_all |-> r.dunder_all, import_all |-> r.import_all]

C22_Reverse(xs) == [i \in 1..Len(xs) |-> xs[Len(xs) + 1 - i]]

\* C22: a function or class definition leaves the export log and the
\* wildcard-import set as they were, whatever its body holds; a for, while,
\* with or try statement at module scope leaves them as scanning the
\* statements of its body at module scope, in source order, would.
C22_ScopesAndBlocks ==
    /\ (Scanned /\ last.x.kind \in {"FunctionDef", "ClassDef"}) =>
         /\ dunder_all = pre.dunder_all
         /\ import_all = pre.import_all
    /\ (Scanned /\ last.x.kind \in {"For", "While", "With", "Try"}) =>
         [dunder_all |-> dunder_all, import_all |-> import_all]
             = C22_AtModuleScope(pre, C22_Nested(last.x))

\* a block whose body changes the log and the wildcard imports of a table
\* that has bindings, and would leave another log in the reverse order
C22_Witness ==
    /\ Scanned
    /\ last.x.kind \in {"For", "While", "With", "Try"}
    /\ C22_Nested(last.x) = ExportBody
    /\ dunder_all # pre.dunder_all
    /\ import_all # pre.import_all
    /\ C22_AtModuleScope(pre, C22_Reverse(ExportBody)).dunder_all # dunder_all
    /\ pre.definitions # <<>>
    /\ pre.dunder_all = <<>>
    /\ pre.import_all = <<>>

====
